---- MODULE Spec2Model ----
(***************************************************************************)
(* Interactive Bezier curve editor (practice 3): the control-point store,  *)
(* the de Casteljau evaluator, the tessellator with its arc length, the    *)
(* quality control and the upload of both vertex buffers, as a state       *)
(* machine over the event loop of main().                                  *)
(*                                                                         *)
(* `float` is modelled as IEEE-754 binary32 with round-to-nearest-even:    *)
(* a value is [nan, s, m, e] standing for (-1)^s * m * 2^e with            *)
(* 2^23 <= m < 2^24, or m = 0 for zero.  The exponent is unbounded: the    *)
(* coordinates are small non-negative integers and the parameters lie in   *)
(* [0,1], so no operation overflows or underflows.  Wide intermediate      *)
(* integers are kept as two limbs (H, L) = H * 2^24 + L.                   *)
(***************************************************************************)
EXTENDS Integers, Sequences, FiniteSets, TLC

\* ------------------------------------------------------------------ bounds
MaxPts == 3
MaxQuality == 5
MaxDen == 4

\* ------------------------------------------------------- program constants
MantBits == 24
InitQuality == 4
SplineGreen == 180
ColorMax == 255
VertexSize == 12
BezierVertexSize == 16

Limb == 2^MantBits
HalfLimb == 2^(MantBits - 1)
Split == 2^12

\* ------------------------------------------------------------- binary32
\* Heavy values are handed on as operator arguments rather than named in a
\* LET that is used several times, which keeps every definition small.

\* the number of significant bits of n, 0 <= n < 2^31, by bisection
RECURSIVE BitLenIn(_, _, _)
BitLenIn(n, lo, hi) ==
    IF lo = hi THEN lo
    ELSE IF n < 2^((lo + hi) \div 2) THEN BitLenIn(n, lo, (lo + hi) \div 2)
         ELSE BitLenIn(n, (lo + hi) \div 2 + 1, hi)

BitLen(n) == BitLenIn(n, 0, 31)

FZero == [nan |-> FALSE, s |-> 0, m |-> 0, e |-> 0]
FNaN == [nan |-> TRUE, s |-> 0, m |-> 0, e |-> 0]
FOne == [nan |-> FALSE, s |-> 0, m |-> HalfLimb, e |-> 1 - MantBits]

\* a rounded significand r <= 2^24 with its exponent, normalised
Pack(s, r, e) ==
    IF r = Limb THEN [nan |-> FALSE, s |-> s, m |-> HalfLimb, e |-> e + 1]
    ELSE [nan |-> FALSE, s |-> s, m |-> r, e |-> e]

\* round to nearest, ties to even: q the bits kept, rem the bits dropped,
\* half the weight of one half of the last place kept, st a sticky bit for
\* what lies below rem
RoundUp(q, rem, half, st) ==
    IF rem > half \/ (rem = half /\ (st \/ q % 2 = 1)) THEN q + 1 ELSE q

\* H > 0 has kh <= 24 bits: kh bits of L are dropped
RoundLow(s, H, L, st, e, kh) ==
    Pack(s, RoundUp(H * 2^(MantBits - kh) + (L \div 2^kh), L % 2^kh,
                    2^(kh - 1), st),
         e + kh)

\* H has kh > 24 bits: all of L and kh - 24 bits of H are dropped; L counts
\* as a sticky bit below the bits dropped of H
RoundHigh(s, H, L, st, e, kh) ==
    Pack(s, RoundUp(H \div 2^(kh - MantBits), H % 2^(kh - MantBits),
                    2^(kh - MantBits - 1), st \/ L > 0),
         e + kh)

\* a number below 2^24 is exact: shift it up to 24 bits
Exact(s, L, e, kl) ==
    IF L = 0 THEN FZero
    ELSE [nan |-> FALSE, s |-> s, m |-> L * 2^(MantBits - kl),
          e |-> e - (MantBits - kl)]

RoundBits(s, H, L, st, e, kh) ==
    IF kh = 0 THEN Exact(s, L, e, BitLen(L))
    ELSE IF kh <= MantBits THEN RoundLow(s, H, L, st, e, kh)
    ELSE RoundHigh(s, H, L, st, e, kh)

\* Round the exact magnitude (H * 2^24 + L [+ a fraction in (0,1) when st])
\* * 2^e to the nearest binary32.  st is only given with at least 26
\* significant bits.
RoundHL(s, H, L, st, e) == RoundBits(s, H, L, st, e, BitLen(H))

RoundRec(s, hl, st, e) == RoundHL(s, hl.H, hl.L, st, e)

\* static_cast<float>(n) of a small non-negative integer (exact below 2^24)
FromInt(n) == RoundHL(0, 0, n, FALSE, 0)

\* H * 2^24 + low as two limbs, for low < 2^31
Carry(H, low) == [H |-> H + (low \div Limb), L |-> low % Limb]

\* the product of two numbers below 2^27 as two limbs, by halves of 12 bits
MulParts(a1, a0, b1, b0) ==
    Carry(a1 * b1 + ((a1 * b0 + a0 * b1) \div Split),
          ((a1 * b0 + a0 * b1) % Split) * Split + a0 * b0)

MulHL(a, b) == MulParts(a \div Split, a % Split, b \div Split, b % Split)

\* a * b
FMul(a, b) ==
    IF a.nan \/ b.nan THEN FNaN
    ELSE IF a.m = 0 \/ b.m = 0 THEN FZero
    ELSE RoundRec((a.s + b.s) % 2, MulHL(a.m, b.m), FALSE, a.e + b.e)

\* |a| >= |b| as magnitudes of two numbers
MagGeq(a, b) ==
    \/ b.m = 0
    \/ a.m # 0 /\ (a.e > b.e \/ (a.e = b.e /\ a.m >= b.m))

\* m * 2^d as two limbs, 0 <= d <= 25
ShiftHL(m, d) ==
    IF d <= MantBits
    THEN [H |-> m \div 2^(MantBits - d), L |-> (m % 2^(MantBits - d)) * 2^d]
    ELSE [H |-> m * 2^(d - MantBits), L |-> 0]

\* x + m or x - m on two limbs (x >= m)
AddHL(x, m, same) ==
    IF same THEN Carry(x.H, x.L + m)
    ELSE IF x.L >= m THEN [H |-> x.H, L |-> x.L - m]
    ELSE [H |-> x.H - 1, L |-> x.L - m + Limb]

\* a + b for |a| >= |b|, both non-zero: exact, then rounded once
AddOrdered(a, b) ==
    IF a.e - b.e > MantBits + 1 THEN a
    ELSE RoundRec(a.s, AddHL(ShiftHL(a.m, a.e - b.e), b.m, a.s = b.s),
                  FALSE, b.e)

\* a + b
FAdd(a, b) ==
    IF a.nan \/ b.nan THEN FNaN
    ELSE IF b.m = 0 THEN a
    ELSE IF a.m = 0 THEN b
    ELSE AddOrdered(IF MagGeq(a, b) THEN a ELSE b, IF MagGeq(a, b) THEN b ELSE a)

FNeg(a) == IF a.nan \/ a.m = 0 THEN a ELSE [a EXCEPT !.s = 1 - a.s]

\* a - b
FSub(a, b) == FAdd(a, FNeg(b))

\* n further quotient bits of r / d by long division: <<quotient, remainder>>
RECURSIVE DivBits(_, _, _, _)
DivBits(r, d, n, acc) ==
    IF n = 0 THEN <<acc, r>>
    ELSE IF 2 * r >= d THEN DivBits(2 * r - d, d, n - 1, 2 * acc + 1)
         ELSE DivBits(2 * r, d, n - 1, 2 * acc)

RoundQuotient(s, qr, e) ==
    RoundHL(s, qr[1] \div Limb, qr[1] % Limb, qr[2] # 0, e)

\* a / b; 0/0 is NaN (the only division by zero the program can make)
FDiv(a, b) ==
    IF a.nan \/ b.nan THEN FNaN
    ELSE IF b.m = 0 THEN FNaN
    ELSE IF a.m = 0 THEN FZero
    ELSE RoundQuotient((a.s + b.s) % 2,
                       DivBits(a.m % b.m, b.m, MantBits + 2, a.m \div b.m),
                       a.e - b.e - (MantBits + 2))

\* x <= y on two limbs
LeqHL(x, H, L) == x.H < H \/ (x.H = H /\ x.L <= L)

\* floor of the square root of H * 2^24 + L, bit by bit from bit n down
RECURSIVE SqrtBits(_, _, _, _)
SqrtBits(H, L, n, q) ==
    IF n < 0 THEN q
    ELSE IF LeqHL(MulHL(q + 2^n, q + 2^n), H, L)
         THEN SqrtBits(H, L, n - 1, q + 2^n)
         ELSE SqrtBits(H, L, n - 1, q)

\* x * 2^(-k) on two limbs with the bits lost, -4 <= k <= 22
ScaleHL(x, k) ==
    IF k <= 0
    THEN [H |-> x.H * 2^(-k) + ((x.L * 2^(-k)) \div Limb),
          L |-> (x.L * 2^(-k)) % Limb, lost |-> FALSE]
    ELSE [H |-> x.H \div 2^k,
          L |-> (x.H % 2^k) * 2^(MantBits - k) + (x.L \div 2^k),
          lost |-> (x.L % 2^k) # 0]

\* the sum of two scaled squares
SumHL(x, y) ==
    [H |-> x.H + y.H + ((x.L + y.L) \div Limb), L |-> (x.L + y.L) % Limb,
     lost |-> x.lost \/ y.lost]

\* the root q of S, rounded; sticky when S is no exact square
RoundRoot(S, q, e) ==
    RoundHL(0, q \div Limb, q % Limb,
            S.lost \/ MulHL(q, q) # [H |-> S.H, L |-> S.L], e)

SqrtHL(S, e) == RoundRoot(S, SqrtBits(S.H, S.L, MantBits + 2, 0), e)

\* sqrt(a^2 + b^2) for |a| >= |b| > 0, correctly rounded: the sum of the
\* squares is scaled to 2^(2 * a.e - 4), keeping 51 to 53 significant bits
\* and a sticky bit for what the scaling drops of b^2
HypotOrdered(a, b) ==
    IF 2 * (a.e - b.e) > MantBits + 2 THEN [a EXCEPT !.s = 0]
    ELSE SqrtHL(SumHL(ScaleHL(MulHL(a.m, a.m), -4),
                      ScaleHL(MulHL(b.m, b.m), 2 * (a.e - b.e) - 4)),
                a.e - 2)

\* std::hypot(x, y)
FHypot(x, y) ==
    IF x.nan \/ y.nan THEN FNaN
    ELSE IF y.m = 0 THEN [x EXCEPT !.s = 0]
    ELSE IF x.m = 0 THEN [y EXCEPT !.s = 0]
    ELSE HypotOrdered(IF MagGeq(x, y) THEN x ELSE y,
                      IF MagGeq(x, y) THEN y ELSE x)

\* ------------------------------------------------------------ the inputs
\* pointer positions of the left-button events (event.button.x, .y)
MousePositions == {<<0, 0>>, <<100, 0>>}
\* positions of the control points the evaluator and the tessellator are
\* applied to on their own
SamplePositions == MousePositions \cup {<<100, 100>>}
\* window sizes (SDL_GetWindowSize, SDL_WINDOWEVENT_RESIZED data1, data2)
WindowSizes == {<<800, 600>>, <<1024, 768>>}

\* --------------------------------------------------------- vertex records
vec2(x, y) == [x |-> x, y |-> y]
PointColor == <<ColorMax, ColorMax, ColorMax, ColorMax>>
SplineColor == <<SplineGreen, ColorMax, SplineGreen, ColorMax>>
vertex(position, color) == [position |-> position, color |-> color]
bezier_vertex(position, color, dist) ==
    [position |-> position, color |-> color, dist |-> dist]

\* the vertex a left click at (mouse_x, mouse_y) appends
ClickVertex(mouse_x, mouse_y) ==
    vertex(vec2(FromInt(mouse_x), FromInt(mouse_y)), PointColor)

\* ------------------------------------------------------------- evaluator
\* a step with the two weights exchanged
LerpSwapped(p, q, t) == FAdd(FMul(p, t), FMul(q, FSub(FOne, t)))

\* one coordinate of one de Casteljau step: p * (1.f - t) + q * t
Lerp(p, q, t) == FAdd(FMul(p, FSub(FOne, t)), FMul(q, t))

\* for (i = 0; i + k + 1 < n; ++i): points[i] is replaced in place, reading
\* points[i + 1] before this round reaches it (sequences count from 1)
RECURSIVE InnerLoop(_, _, _, _, _)
InnerLoop(points, n, k, i, t) ==
    IF i + k + 1 < n
    THEN InnerLoop([points EXCEPT ![i + 1] =
                        vec2(Lerp(points[i + 1].x, points[i + 2].x, t),
                             Lerp(points[i + 1].y, points[i + 2].y, t))],
                   n, k, i + 1, t)
    ELSE points

\* for (k = 0; k + 1 < n; ++k)
RECURSIVE OuterLoop(_, _, _, _)
OuterLoop(points, n, k, t) ==
    IF k + 1 < n THEN OuterLoop(InnerLoop(points, n, k, 0, t), n, k + 1, t)
    ELSE points

\* the working vector of bezier(): the positions of the vertices
CopyPositions(vertices) == [i \in 1..Len(vertices) |-> vertices[i].position]

\* bezier(vertices, t): the value returned and the caller's vector after the
\* call (the argument is a const reference; the loops write the copy)
bezier(vertices, t) ==
    [ret |-> OuterLoop(CopyPositions(vertices), Len(vertices), 0, t)[1],
     vertices |-> vertices]

\* ------------------------------------------------------------ tessellator
\* a sample count of quality samples per segment instead of per point
SampleCountPerSegment(pts, q) == (Len(pts) - 1) * q

\* size_t N = bezier_pts.size() * quality
SampleCount(pts, q) == Len(pts) * q

\* a parameter step of 1/N instead of 1/(N - 1)
ParamOverN(i, N) == FDiv(FromInt(i), FromInt(N))

\* static_cast<float>(i) / (N - 1): 0/0 when N = 1
Param(i, N) == FDiv(FromInt(i), FromInt(N - 1))

\* a dist that forgets previous_dist: the length of the last segment only
SegmentLength(spline, part) ==
    IF spline = <<>> THEN FZero
    ELSE FHypot(FSub(spline[Len(spline)].position.x, part.x),
                FSub(spline[Len(spline)].position.y, part.y))

\* the dist of the next sample, given the samples pushed so far:
\* previous_dist and hypot(back - part) + previous_dist, 0 for the first
ArcLength(spline, part) ==
    IF spline = <<>> THEN FZero
    ELSE FAdd(FHypot(FSub(spline[Len(spline)].position.x, part.x),
                     FSub(spline[Len(spline)].position.y, part.y)),
              spline[Len(spline)].dist)

\* bezier_spline.push_back({part, {180, 255, 180, 255}, dist}), with the
\* loop's state: the index, the samples pushed, the parameters they were
\* taken at, and the control points as the call of bezier() left them
PushBack(st, t, b) ==
    [i |-> st.i + 1,
     pts |-> b.vertices,
     spline |-> Append(st.spline,
                       bezier_vertex(b.ret, SplineColor,
                                     ArcLength(st.spline, b.ret))),
     ts |-> Append(st.ts, t)]

Sample(st, t) == PushBack(st, t, bezier(st.pts, t))

\* one iteration of for (i = 0; i < N; i++)
SplineStep(st, N) == Sample(st, Param(st.i, N))

RECURSIVE SplineLoop(_, _)
SplineLoop(st, N) ==
    IF st.i < N THEN SplineLoop(SplineStep(st, N), N) ELSE st

\* glBufferData(GL_ARRAY_BUFFER, size, data, usage): the buffer's store is
\* replaced by the first `size` bytes of data, vertices of `stride` bytes
BufferData(size, data, stride) == SubSeq(data, 1, size \div stride)

update_pts_vbo(pts) == BufferData(VertexSize * Len(pts), pts, VertexSize)

\* an upload of the spline sized with sizeof(vertex)
UploadSplineAsVertex(spline) ==
    BufferData(VertexSize * Len(spline), spline, BezierVertexSize)

update_spline_vbo(spline) ==
    BufferData(BezierVertexSize * Len(spline), spline, BezierVertexSize)

\* update_bezier(): clear, resample, upload both buffers
Upload(r) ==
    [bezier_pts |-> r.pts, bezier_spline |-> r.spline, params |-> r.ts,
     vbo_pts |-> update_pts_vbo(r.pts),
     vbo_spline |-> update_spline_vbo(r.spline)]

update_bezier(pts, q) ==
    Upload(SplineLoop([i |-> 0, pts |-> pts, spline |-> <<>>, ts |-> <<>>],
                      SampleCount(pts, q)))

\* ------------------------------------------------------------------ state
VARIABLES
    bezier_pts,     \* std::vector<vertex>: the control points
    bezier_spline,  \* std::vector<bezier_vertex>: the tessellated curve
    quality,        \* size_t quality
    params,         \* the parameters t the last update_bezier() sampled at
    vbo_pts,        \* the data store of the buffer vbo_pts
    vbo_spline,     \* the data store of the buffer vbo_spline
    width, height,  \* the viewport
    running,        \* bool running
    pc,             \* where main() is: "poll", "handle", "draw", "done"
    event,          \* SDL_Event event, as SDL_PollEvent filled it
    updates,        \* calls of update_bezier() made for the current event
    call            \* a call of bezier() or update_bezier() on its own

vars == <<bezier_pts, bezier_spline, quality, params, vbo_pts, vbo_spline,
          width, height, running, pc, event, updates, call>>

curve == <<bezier_pts, bezier_spline, quality, params, vbo_pts, vbo_spline>>

Ev(type, code, x, y) == [type |-> type, code |-> code, x |-> x, y |-> y]
NoEvent == Ev("NONE", "NONE", 0, 0)

\* the events the window system can deliver
Events ==
    {Ev("SDL_QUIT", "NONE", 0, 0)}
    \cup {Ev("SDL_WINDOWEVENT", "SDL_WINDOWEVENT_RESIZED", wh[1], wh[2]) :
            wh \in WindowSizes}
    \cup {Ev("SDL_WINDOWEVENT", "SDL_WINDOWEVENT_EXPOSED", 0, 0)}
    \cup {Ev("SDL_MOUSEBUTTONDOWN", "SDL_BUTTON_LEFT", p[1], p[2]) :
            p \in MousePositions}
    \cup {Ev("SDL_MOUSEBUTTONDOWN", b, 0, 0) :
            b \in {"SDL_BUTTON_RIGHT", "SDL_BUTTON_MIDDLE"}}
    \cup {Ev("SDL_KEYDOWN", k, 0, 0) : k \in {"SDLK_LEFT", "SDLK_RIGHT", "SDLK_UP"}}
    \cup {Ev("SDL_MOUSEMOTION", "NONE", 0, 0)}

IsAppend(e) == e.type = "SDL_MOUSEBUTTONDOWN" /\ e.code = "SDL_BUTTON_LEFT"
IsRemoveLast(e) == e.type = "SDL_MOUSEBUTTONDOWN" /\ e.code = "SDL_BUTTON_RIGHT"
IsDecrease(e) == e.type = "SDL_KEYDOWN" /\ e.code = "SDLK_LEFT"
IsIncrease(e) == e.type = "SDL_KEYDOWN" /\ e.code = "SDLK_RIGHT"
IsQuit(e) == e.type = "SDL_QUIT"
IsResize(e) == e.type = "SDL_WINDOWEVENT" /\ e.code = "SDL_WINDOWEVENT_RESIZED"
IsIgnored(e) ==
    ~(IsAppend(e) \/ IsRemoveLast(e) \/ IsDecrease(e) \/ IsIncrease(e)
      \/ IsQuit(e) \/ IsResize(e))

NoCall == [fn |-> "none"]

InitMain ==
    /\ bezier_pts = <<>>
    /\ bezier_spline = <<>>
    /\ quality = InitQuality
    /\ params = <<>>
    /\ vbo_pts = update_pts_vbo(<<>>)
    /\ vbo_spline = update_spline_vbo(<<>>)
    /\ \E wh \in WindowSizes : width = wh[1] /\ height = wh[2]
    /\ running = TRUE
    /\ pc = "poll"
    /\ event = NoEvent
    /\ updates = 0

Init == InitMain /\ call = NoCall

\* the assignments of one call of update_bezier() on the edited store
Assign(u, q) ==
    /\ bezier_pts' = u.bezier_pts
    /\ bezier_spline' = u.bezier_spline
    /\ params' = u.params
    /\ vbo_pts' = u.vbo_pts
    /\ vbo_spline' = u.vbo_spline
    /\ quality' = q
    /\ updates' = updates + 1

\* a call that resamples the store as it was and only then edits it
UpdateBeforeEdit(pts, q) ==
    Assign([update_bezier(bezier_pts, quality) EXCEPT !.bezier_pts = pts], q)

CallUpdateBezier(pts, q) == Assign(update_bezier(pts, q), q)

\* SDL_PollEvent(&event) returns 1.  The model stops appending at MaxPts
\* points and increasing at MaxQuality.
PollEvent ==
    /\ pc = "poll"
    /\ \E e \in Events :
        /\ IsAppend(e) => Len(bezier_pts) < MaxPts
        /\ IsIncrease(e) => quality < MaxQuality
        /\ event' = e
    /\ pc' = "handle"
    /\ updates' = 0
    /\ UNCHANGED <<curve, width, height, running, call>>

\* SDL_PollEvent returns 0: the for loop ends; if (!running) break
PollEmpty ==
    /\ pc = "poll"
    /\ pc' = IF running THEN "draw" ELSE "done"
    /\ event' = NoEvent
    /\ UNCHANGED <<curve, width, height, running, updates, call>>

\* case SDL_QUIT
HandleQuit ==
    /\ pc = "handle" /\ IsQuit(event)
    /\ running' = FALSE
    /\ pc' = "poll"
    /\ UNCHANGED <<curve, width, height, event, updates, call>>

\* a resize that also puts the quality back and resamples
ResizeAndReset ==
    /\ pc = "handle" /\ IsResize(event)
    /\ width' = event.x
    /\ height' = event.y
    /\ CallUpdateBezier(bezier_pts, InitQuality)
    /\ pc' = "poll"
    /\ UNCHANGED <<running, event, call>>

\* case SDL_WINDOWEVENT_RESIZED
HandleResize ==
    /\ pc = "handle" /\ IsResize(event)
    /\ width' = event.x
    /\ height' = event.y
    /\ pc' = "poll"
    /\ UNCHANGED <<curve, running, event, updates, call>>

\* SDL_BUTTON_LEFT: push_back, update_bezier
HandleLeftClick ==
    /\ pc = "handle" /\ IsAppend(event)
    /\ CallUpdateBezier(Append(bezier_pts, ClickVertex(event.x, event.y)), quality)
    /\ pc' = "poll"
    /\ UNCHANGED <<width, height, running, event, call>>

\* a removal at the front: erase(begin())
PopFront(pts) == SubSeq(pts, 2, Len(pts))

\* bezier_pts.pop_back()
pop_back(pts) == SubSeq(pts, 1, Len(pts) - 1)

\* a right click that removes without looking
RemoveAlways(pts) == TRUE

\* the guard of pop_back: !bezier_pts.empty()
CanRemove(pts) == pts # <<>>

\* SDL_BUTTON_RIGHT: if (!bezier_pts.empty()) { pop_back, update_bezier }
HandleRightClick ==
    /\ pc = "handle" /\ IsRemoveLast(event)
    /\ IF CanRemove(bezier_pts)
       THEN CallUpdateBezier(pop_back(bezier_pts), quality)
       ELSE UNCHANGED <<curve, updates>>
    /\ pc' = "poll"
    /\ UNCHANGED <<width, height, running, event, call>>

\* a floor of 0 instead of 1
CanDecreaseToZero(q) == q > 0

\* the guard of quality--
CanDecrease(q) == q > 1

\* SDLK_LEFT: if (quality > 1) { quality--, update_bezier }
HandleKeyLeft ==
    /\ pc = "handle" /\ IsDecrease(event)
    /\ IF CanDecrease(quality)
       THEN CallUpdateBezier(bezier_pts, quality - 1)
       ELSE UNCHANGED <<curve, updates>>
    /\ pc' = "poll"
    /\ UNCHANGED <<width, height, running, event, call>>

\* SDLK_RIGHT: quality++, update_bezier
HandleKeyRight ==
    /\ pc = "handle" /\ IsIncrease(event)
    /\ CallUpdateBezier(bezier_pts, quality + 1)
    /\ pc' = "poll"
    /\ UNCHANGED <<width, height, running, event, call>>

\* every other event, window event, button and key: no case of the switch
HandleIgnored ==
    /\ pc = "handle" /\ IsIgnored(event)
    /\ pc' = "poll"
    /\ UNCHANGED <<curve, width, height, running, event, updates, call>>

\* the vertex counts the frame passes to glDrawArrays
DrawCounts ==
    [pts |-> Len(bezier_pts), spline |-> Len(bezier_spline)]

\* one frame: clear, draw both buffers, swap; the draw calls only read
Frame ==
    /\ pc = "draw"
    /\ pc' = "poll"
    /\ UNCHANGED <<curve, width, height, running, event, updates, call>>

Next ==
    \/ PollEvent
    \/ PollEmpty
    \/ HandleQuit
    \/ HandleResize
    \/ HandleLeftClick
    \/ HandleRightClick
    \/ HandleKeyLeft
    \/ HandleKeyRight
    \/ HandleIgnored
    \/ Frame

Spec == Init /\ [][Next]_vars

\* ------------------------------------- the two functions on their own
\* the control-point sequences of at most MaxPts points
ControlSeqs ==
    UNION {[1..k -> SamplePositions] : k \in 0..MaxPts}

Vertices(ps) == [i \in 1..Len(ps) |-> ClickVertex(ps[i][1], ps[i][2])]

\* the parameters num / den in [0, 1]
Parameters ==
    {FDiv(FromInt(nd[1]), FromInt(nd[2])) :
        nd \in {x \in (0..MaxDen) \X (1..MaxDen) : x[1] <= x[2]}}

BezierCalls ==
    {[fn |-> "bezier", done |-> FALSE, vertices |-> Vertices(ps), t |-> t] :
        ps \in ControlSeqs \ {<<>>}, t \in Parameters}

UpdateBezierCalls ==
    {[fn |-> "update_bezier", done |-> FALSE, pts |-> Vertices(ps), q |-> q] :
        ps \in ControlSeqs, q \in 1..MaxQuality}

InitFn == InitMain /\ call \in BezierCalls \cup UpdateBezierCalls

BezierDone(c, b) ==
    [fn |-> c.fn, done |-> TRUE, vertices |-> c.vertices, t |-> c.t,
     ret |-> b.ret, after |-> b.vertices]

\* vec2 ret = bezier(vertices, t)
ApplyBezier ==
    /\ call.fn = "bezier" /\ ~call.done
    /\ call' = BezierDone(call, bezier(call.vertices, call.t))
    /\ UNCHANGED <<curve, width, height, running, pc, event, updates>>

UpdateBezierDone(c, u) ==
    [fn |-> c.fn, done |-> TRUE, pts |-> c.pts, q |-> c.q, out |-> u]

\* update_bezier() on a store holding pts at quality q
ApplyUpdateBezier ==
    /\ call.fn = "update_bezier" /\ ~call.done
    /\ call' = UpdateBezierDone(call, update_bezier(call.pts, call.q))
    /\ UNCHANGED <<curve, width, height, running, pc, event, updates>>

NextFn ==
    \/ ApplyBezier
    \/ ApplyUpdateBezier

SpecFn == InitFn /\ [][NextFn]_vars

\* ------------------------------------------------------------ the claims
HandlingStep == pc = "handle" /\ pc' = "poll"

\* C1: whenever the control-point store holds 0 or 1 points, the
\* tessellated spline is empty, whatever the quality.
C1_DegenerateEmpty == Len(bezier_pts) <= 1 => bezier_spline = <<>>

\* C2: the length of the tessellated spline equals the number of control
\* points times the quality whenever that product exceeds 1.
C2_Density ==
    Len(bezier_pts) * quality > 1
        => Len(bezier_spline) = Len(bezier_pts) * quality

C2_Witness ==
    /\ Len(bezier_pts) = 3 /\ quality = 2 /\ Len(bezier_spline) = 6
    /\ updates = 1

\* C3: quality is at least 1 in every reachable state, and handling a
\* decrease at quality 1 leaves it at 1.
C3_QualityFloor ==
    /\ [](quality \in Nat /\ quality >= 1)
    /\ [][HandlingStep /\ IsDecrease(event) /\ quality = 1 => quality' = 1]_vars

C3_Witness ==
    pc = "poll" /\ IsDecrease(event) /\ quality = 1 /\ updates = 0

\* C4: a rebuild never divides by zero for the sample parameter: with
\* N = count * quality <= 1 no parameter is computed and the tessellation
\* is empty.
C4_NoZeroDivision ==
    /\ \A i \in DOMAIN params : ~params[i].nan
    /\ Len(bezier_pts) * quality <= 1 => bezier_spline = <<>>

\* C5: after a rebuild of at least 2 control points, the samples are taken
\* at parameters from 0 to 1, the first sample lies on the first control
\* point and the last sample on the last control point.
C5_Endpoints ==
    (call.fn = "update_bezier" /\ call.done /\ Len(call.pts) >= 2)
        => /\ call.out.bezier_spline # <<>>
           /\ call.out.params[1] = FZero
           /\ call.out.params[Len(call.out.params)] = FOne
           /\ call.out.bezier_spline[1].position = call.pts[1].position
           /\ call.out.bezier_spline[Len(call.out.bezier_spline)].position
                  = call.pts[Len(call.pts)].position

C5_Witness ==
    /\ call.fn = "update_bezier" /\ call.done /\ call.q = 4
    /\ call.pts = Vertices(<<<<0, 0>>, <<100, 0>>, <<100, 100>>>>)
    /\ Len(call.out.bezier_spline) = 12
    /\ call.out.bezier_spline[12].position = vec2(FromInt(100), FromInt(100))
    /\ call.out.bezier_spline[2].position # call.out.bezier_spline[1].position

\* a <= b for two numbers
FLeq(a, b) ==
    IF a.s # b.s THEN a.s = 1 \/ (a.m = 0 /\ b.m = 0)
    ELSE IF a.s = 0 THEN MagGeq(b, a) ELSE MagGeq(a, b)

\* the arc length the claim gives a sample after the sample prev
NextDist(prev, cur) ==
    FAdd(prev.dist,
         FHypot(FSub(cur.position.x, prev.position.x),
                FSub(cur.position.y, prev.position.y)))

\* C6: in every tessellated sequence a rebuild produces, the first arc
\* length is 0, each later one is the previous one plus the distance between
\* the two samples, and the arc lengths never decrease along the sequence.
C6_ArcLength ==
    (call.fn = "update_bezier" /\ call.done /\ call.out.bezier_spline # <<>>)
        => /\ call.out.bezier_spline[1].dist = FZero
           /\ \A i \in 2..Len(call.out.bezier_spline) :
                /\ call.out.bezier_spline[i].dist
                     = NextDist(call.out.bezier_spline[i - 1],
                                call.out.bezier_spline[i])
                /\ FLeq(call.out.bezier_spline[i - 1].dist,
                        call.out.bezier_spline[i].dist)
                /\ ~call.out.bezier_spline[i].dist.nan

C6_Witness ==
    /\ call.fn = "update_bezier" /\ call.done /\ call.q = 1
    /\ call.pts = Vertices(<<<<0, 0>>, <<100, 0>>>>)
    /\ Len(call.out.bezier_spline) = 2
    /\ call.out.bezier_spline[1].position = vec2(FZero, FZero)
    /\ call.out.bezier_spline[1].dist = FZero
    /\ call.out.bezier_spline[2].position = vec2(FromInt(100), FZero)
    /\ call.out.bezier_spline[2].dist = FromInt(100)

\* the linear interpolation (1 - t) * p0 + t * p1 of one coordinate
Interpolate(p0, p1, t) == FAdd(FMul(FSub(FOne, t), p0), FMul(t, p1))

\* C7: for two control points p0, p1 and t in [0,1], bezier returns the
\* linear interpolation (1-t)*p0 + t*p1 in both coordinates, p0 at t = 0
\* and p1 at t = 1, and leaves the control points as they were.
C7_Evaluator ==
    (call.fn = "bezier" /\ call.done /\ Len(call.vertices) = 2)
        => /\ call.ret.x = Interpolate(call.vertices[1].position.x,
                                       call.vertices[2].position.x, call.t)
           /\ call.ret.y = Interpolate(call.vertices[1].position.y,
                                       call.vertices[2].position.y, call.t)
           /\ call.t = FZero => call.ret = call.vertices[1].position
           /\ call.t = FOne => call.ret = call.vertices[2].position
           /\ call.after = call.vertices

C7_Witness ==
    /\ call.fn = "bezier" /\ call.done
    /\ call.vertices = Vertices(<<<<100, 0>>, <<100, 100>>>>)
    /\ call.t = FDiv(FromInt(1), FromInt(3))
    /\ call.ret.x = FromInt(100)
    /\ call.ret.y = FMul(FromInt(100), call.t)

\* C8: the control points are a stack: handling an append adds exactly the
\* clicked point at the end, handling a remove_last drops exactly the last
\* point (nothing on an empty store), and either leaves the other points
\* and their order alone; nothing else changes the number of points.
C8_Stack ==
    [][/\ (HandlingStep /\ IsAppend(event))
            => /\ Len(bezier_pts') = Len(bezier_pts) + 1
               /\ SubSeq(bezier_pts', 1, Len(bezier_pts)) = bezier_pts
               /\ bezier_pts'[Len(bezier_pts')] = ClickVertex(event.x, event.y)
       /\ (HandlingStep /\ IsRemoveLast(event) /\ bezier_pts # <<>>)
            => /\ Len(bezier_pts') = Len(bezier_pts) - 1
               /\ bezier_pts' = SubSeq(bezier_pts, 1, Len(bezier_pts) - 1)
       /\ (HandlingStep /\ IsRemoveLast(event) /\ bezier_pts = <<>>)
            => bezier_pts' = <<>>
       /\ ~(HandlingStep /\ (IsAppend(event) \/ IsRemoveLast(event)))
            => Len(bezier_pts') = Len(bezier_pts)]_vars

C8_Witness ==
    /\ pc = "poll" /\ IsRemoveLast(event) /\ updates = 1
    /\ bezier_pts = Vertices(<<<<100, 0>>, <<0, 0>>>>)

\* C9: update_bezier (the rebuild and the upload) runs exactly for the
\* edits that change state: every append, remove_last on a non-empty
\* store, increase, and decrease at quality above 1; remove_last on an
\* empty store and decrease at quality 1 run none and leave the control
\* points, the quality, the spline and both buffers as they were.
C9_Triggers ==
    [][HandlingStep =>
        /\ (\/ IsAppend(event)
            \/ IsRemoveLast(event) /\ bezier_pts # <<>>
            \/ IsIncrease(event)
            \/ IsDecrease(event) /\ quality > 1)
              => /\ updates' = 1
                 /\ <<bezier_pts, quality>> # <<bezier_pts', quality'>>
        /\ (\/ IsRemoveLast(event) /\ bezier_pts = <<>>
            \/ IsDecrease(event) /\ quality = 1)
              => /\ updates' = 0
                 /\ UNCHANGED <<bezier_pts, quality, bezier_spline,
                                vbo_pts, vbo_spline>>]_vars

C9_Witness ==
    /\ pc = "poll" /\ IsRemoveLast(event) /\ updates = 0
    /\ bezier_pts = <<>> /\ quality = 2

\* C10: at every frame draw each buffer holds exactly the current sequence
\* it is drawn from, so the counts handed to glDrawArrays never exceed the
\* vertices uploaded.
C10_BuffersCurrent ==
    pc = "draw"
        => /\ vbo_pts = bezier_pts
           /\ vbo_spline = bezier_spline
           /\ DrawCounts.pts <= Len(vbo_pts)
           /\ DrawCounts.spline <= Len(vbo_spline)

C10_Witness ==
    /\ pc = "draw" /\ Len(bezier_pts) = 2 /\ quality = 3
    /\ Len(vbo_spline) = 6 /\ Len(vbo_pts) = 2

\* C11: an edit is one step of the loop that changes the store or the
\* quality, resamples and uploads both buffers, with exactly one call of
\* update_bezier, before the next event is polled; a frame is only entered
\* from the poll that found no event, with the curve as that poll left it;
\* so at every frame draw the spline is what update_bezier makes of the
\* current control points at the current quality, and both buffers hold it.
C11_EditsComplete ==
    /\ [](pc = "draw"
            => /\ bezier_spline
                    = update_bezier(bezier_pts, quality).bezier_spline
               /\ vbo_spline = bezier_spline
               /\ vbo_pts = bezier_pts)
    /\ [][<<bezier_pts, quality>>' # <<bezier_pts, quality>>
            => /\ HandlingStep
               /\ updates = 0 /\ updates' = 1
               /\ vbo_pts' = bezier_pts'
               /\ vbo_spline' = bezier_spline']_vars
    /\ [][pc' = "draw" => pc = "poll" /\ UNCHANGED curve]_vars
    /\ [][pc = "handle" => pc' = "poll"]_vars

C11_Witness ==
    /\ pc = "draw" /\ updates = 1 /\ quality = 2
    /\ bezier_pts = Vertices(<<<<100, 0>>, <<0, 0>>>>)
    /\ Len(bezier_spline) = 4
    /\ bezier_spline[4].position = vec2(FZero, FZero)
    /\ vbo_spline = bezier_spline

\* C12: every event changes only its own component: handling an append or
\* a remove_last leaves the quality unchanged; handling an increase adds
\* exactly 1 to the quality and handling a decrease takes exactly 1 off it
\* when it is above 1, both leaving the control points unchanged; nothing
\* but an increase or a decrease changes the quality; handling a resize and
\* drawing a frame leave the control points, the quality, the spline and
\* both buffers unchanged.
C12_FrameEffects ==
    [][/\ (HandlingStep /\ (IsAppend(event) \/ IsRemoveLast(event)))
            => quality' = quality
       /\ (HandlingStep /\ IsIncrease(event))
            => quality' = quality + 1 /\ bezier_pts' = bezier_pts
       /\ (HandlingStep /\ IsDecrease(event))
            => /\ quality' = IF quality > 1 THEN quality - 1 ELSE quality
               /\ bezier_pts' = bezier_pts
       /\ quality' # quality
            => HandlingStep /\ (IsIncrease(event) \/ IsDecrease(event))
       /\ ((HandlingStep /\ IsResize(event)) \/ pc = "draw")
            => UNCHANGED <<bezier_pts, quality, bezier_spline,
                           vbo_pts, vbo_spline>>]_vars

C12_Witness ==
    /\ pc = "poll" /\ IsResize(event) /\ updates = 0
    /\ width = event.x /\ height = event.y
    /\ Len(bezier_pts) = 2 /\ quality = 5
    /\ Len(bezier_spline) = 10 /\ Len(vbo_spline) = 10

====
